---- MODULE Spec2Model ----
(***************************************************************************)
(* The selection tool of runebender (src/tools/select.rs): the Select      *)
(* struct, its Tool entry points (key_down, mouse_event), its              *)
(* MouseDelegate callbacks and update_selection_for_drag, driven by the    *)
(* Mouse gesture dispatcher over an EditSession.                           *)
(*                                                                         *)
(* Screen space is a grid of cells, 0..MaxX wide and two rows high.  One   *)
(* cell is wider than the click tolerance and than the minimum drag        *)
(* distance: a pointer hits what lies in its cell, and a pointer that      *)
(* leaves the cell of the button press has begun a drag.                   *)
(***************************************************************************)
EXTENDS Integers, FiniteSets, Sequences, TLC

VARIABLES
    tool,      \* the Select struct: drag, last_pos, this_edit_type
    data,      \* the EditSession: selection, points, seg_kind
    mouse,     \* the Mouse dispatcher: Up, Down or Drag, and the press position
    panicked,  \* "no", or the panic that aborted the process
    lastEv,    \* the last gesture callback the tool received, with its modifiers
    snap       \* the selection when the marquee in progress began

vars == <<tool, data, mouse, panicked, lastEv, snap>>

---------------------------------------------------------------------------
(* Bounds of the model *)

MaxX == 3

Xs == 0..MaxX

\* the pointer positions the events are drawn from: the row of the canvas
\* the points lie in, and the two ends of the row below it
PointRow == Xs \X {0}
EmptyRow == {0, MaxX} \X {1}
ScreenPoints == PointRow \cup EmptyRow

---------------------------------------------------------------------------
(* The document: one lone point and one path of one segment *)

EntityIds == {1, 2, 3}

\* the one segment of the document's path joins points 2 and 3
Seg == [start_id |-> 2, end_id |-> 3]

\* PathSeg::ids, the end points of the segment
SegIds == {Seg.start_id, Seg.end_id}

InitPoints == (1 :> <<0, 1>>) @@ (2 :> <<1, 1>>) @@ (3 :> <<3, 1>>)

\* zoom 1, design y up and screen y down
viewport == [zoom |-> 1, flip |-> 1]

to_screen(d) == <<d[1] * viewport.zoom, viewport.flip - d[2] * viewport.zoom>>

from_screen(s) == <<s[1] \div viewport.zoom, (viewport.flip - s[2]) \div viewport.zoom>>

VecAdd(p, v) == <<p[1] + v[1], p[2] + v[2]>>

VecSub(p, q) == <<p[1] - q[1], p[2] - q[2]>>

VecScale(v, k) == <<v[1] * k, v[2] * k>>

Abs(n) == IF n < 0 THEN -n ELSE n

Min2(a, b) == IF a <= b THEN a ELSE b

Max2(a, b) == IF a >= b THEN a ELSE b

MinOf(S) == CHOOSE m \in S : \A n \in S : m <= n

MaxOf(S) == CHOOSE m \in S : \A n \in S : m >= n

\* kurbo Rect::from_points: the corners in either order, normalised
RectFromPoints(p0, p1) ==
    [x0 |-> Min2(p0[1], p1[1]), y0 |-> Min2(p0[2], p1[2]),
     x1 |-> Max2(p0[1], p1[1]), y1 |-> Max2(p0[2], p1[2])]

\* kurbo Rect::contains: closed on the low edges, open on the high edges
RectContains(r, p) ==
    /\ p[1] >= r.x0
    /\ p[1] < r.x1
    /\ p[2] >= r.y0
    /\ p[2] < r.y1

---------------------------------------------------------------------------
(* EditSession, as far as the tool uses it *)

iter_points(d) == DOMAIN d.points

\* the point entity in the pointer's cell, the first in document order
hit_test_all(d, pos) ==
    LET hits == {id \in iter_points(d) : to_screen(d.points[id]) = pos}
    IN  IF hits = {} THEN 0 ELSE MinOf(hits)

SegExists(d) == SegIds \subseteq iter_points(d)

\* a cell strictly between the segment's end points, on the line joining them
OnSegment(a, b, c) ==
    /\ c # a
    /\ c # b
    /\ (b[1] - a[1]) * (c[2] - a[2]) = (b[2] - a[2]) * (c[1] - a[1])
    /\ Min2(a[1], b[1]) <= c[1]
    /\ c[1] <= Max2(a[1], b[1])
    /\ Min2(a[2], b[2]) <= c[2]
    /\ c[2] <= Max2(a[2], b[2])

hit_test_segments(d, pos) ==
    /\ SegExists(d)
    /\ OnSegment(to_screen(d.points[Seg.start_id]), to_screen(d.points[Seg.end_id]), pos)

set_selection_one(d, id) == [d EXCEPT !.selection = {id}]

delete_selection(d) ==
    [d EXCEPT !.points = [id \in DOMAIN d.points \ d.selection |-> d.points[id]],
              !.selection = {}]

nudge_selection(d, delta) ==
    [d EXCEPT !.points = [id \in DOMAIN d.points |->
                            IF id \in d.selection
                            THEN VecAdd(d.points[id], delta)
                            ELSE d.points[id]]]

select_next(d) ==
    LET ids == iter_points(d)
        after == {id \in ids : \A s \in d.selection : id > s}
    IN  IF ids = {} THEN d
        ELSE IF d.selection = {} \/ after = {}
             THEN [d EXCEPT !.selection = {MinOf(ids)}]
             ELSE [d EXCEPT !.selection = {MinOf(after)}]

select_prev(d) ==
    LET ids == iter_points(d)
        before == {id \in ids : \A s \in d.selection : id < s}
    IN  IF ids = {} THEN d
        ELSE IF d.selection = {} \/ before = {}
             THEN [d EXCEPT !.selection = {MaxOf(ids)}]
             ELSE [d EXCEPT !.selection = {MaxOf(before)}]

upgrade_line_seg(d) == [d EXCEPT !.seg_kind = "Curve"]

\* the curve type of a point is not state the tool reads
toggle_selected_on_curve_type(d) == d

select_path(d, pos, shift) ==
    LET path == IF hit_test_segments(d, pos) THEN SegIds ELSE {}
    IN  IF path = {} THEN d
        ELSE IF shift THEN [d EXCEPT !.selection = @ \cup path]
        ELSE [d EXCEPT !.selection = path]

---------------------------------------------------------------------------
(* DragState *)

DragNone == [kind |-> "None"]

DragSelect(previous, rect) == [kind |-> "Select", previous |-> previous, rect |-> rect]

DragMove(last_used_pos) == [kind |-> "Move", last_used_pos |-> last_used_pos]

is_move(drag) == drag.kind = "Move"

drag_rect(drag) == IF drag.kind = "Select" THEN <<drag.rect>> ELSE <<>>

\* what a callback leaves behind: the tool, the session, and whether it aborted
Done(self, d) == [self |-> self, data |-> d, panic |-> "no"]

\* unreachable!("invalid state")
InvalidState(self, d) == [self |-> self, data |-> d, panic |-> "invalid state"]

---------------------------------------------------------------------------
(* impl MouseDelegate<EditSession> for Select *)

mouse_moved(self, d, event) == Done([self EXCEPT !.last_pos = event.pos], d)

\* a shift-click that only ever adds the point
left_down_point_adds(self, d, event, point_id) ==
    IF ~event.shift
    THEN IF point_id \notin d.selection
         THEN Done(self, set_selection_one(d, point_id))
         ELSE Done(self, d)
    ELSE Done(self, [d EXCEPT !.selection = @ \cup {point_id}])

\* a click on an unselected point that leaves the selection as it is
left_down_point_keeps(self, d, event, point_id) ==
    IF ~event.shift
    THEN Done(self, d)
    ELSE IF point_id \in d.selection
         THEN Done(self, [d EXCEPT !.selection = @ \ {point_id}])
         ELSE Done(self, [d EXCEPT !.selection = @ \cup {point_id}])

left_down_point(self, d, event, point_id) ==
    IF ~event.shift
    THEN IF point_id \notin d.selection
         THEN Done(self, set_selection_one(d, point_id))
         ELSE Done(self, d)
    ELSE IF point_id \in d.selection
         THEN Done(self, [d EXCEPT !.selection = @ \ {point_id}])
         ELSE Done(self, [d EXCEPT !.selection = @ \cup {point_id}])

\* a shift-click that toggles each endpoint of the segment by itself
left_down_segment_per_point(self, d, event) ==
    IF event.alt /\ d.seg_kind = "Line"
    THEN Done([self EXCEPT !.this_edit_type = "Normal"], upgrade_line_seg(d))
    ELSE IF ~event.shift
         THEN IF ~(SegIds \subseteq d.selection)
              THEN Done(self, [d EXCEPT !.selection = SegIds])
              ELSE Done(self, d)
         ELSE Done(self, [d EXCEPT !.selection = (@ \ SegIds) \cup (SegIds \ @)])

left_down_segment(self, d, event) ==
    IF event.alt /\ d.seg_kind = "Line"
    THEN Done([self EXCEPT !.this_edit_type = "Normal"], upgrade_line_seg(d))
    ELSE IF ~event.shift
         THEN IF ~(SegIds \subseteq d.selection)
              THEN Done(self, [d EXCEPT !.selection = SegIds])
              ELSE Done(self, d)
         ELSE IF SegIds \subseteq d.selection
              THEN Done(self, [d EXCEPT !.selection = @ \ SegIds])
              ELSE Done(self, [d EXCEPT !.selection = @ \cup SegIds])

\* a click on empty space that clears the selection whatever the modifiers
left_down_nothing_clears(self, d, event) == Done(self, [d EXCEPT !.selection = {}])

left_down_nothing(self, d, event) ==
    IF ~event.shift
    THEN Done(self, [d EXCEPT !.selection = {}])
    ELSE Done(self, d)

left_down_double(self, d, event) ==
    IF hit_test_all(d, event.pos) # 0
    THEN Done([self EXCEPT !.this_edit_type = "Normal"], toggle_selected_on_curve_type(d))
    ELSE Done(self, select_path(d, event.pos, event.shift))

left_down(self, d, event) ==
    IF event.count = 1
    THEN IF hit_test_all(d, event.pos) # 0
         THEN left_down_point(self, d, event, hit_test_all(d, event.pos))
         ELSE IF hit_test_segments(d, event.pos)
              THEN left_down_segment(self, d, event)
              ELSE left_down_nothing(self, d, event)
    ELSE IF event.count = 2
         THEN left_down_double(self, d, event)
         ELSE Done(self, d)

\* a left_up that leaves a move in place
left_up_keeps_move(self, d, event) ==
    IF is_move(self.drag) THEN Done(self, d) ELSE Done([self EXCEPT !.drag = DragNone], d)

left_up(self, d, event) == Done([self EXCEPT !.drag = DragNone], d)

\* the hit test made where the pointer is now, not where the drag started
left_drag_began_current(self, d, drag) ==
    IF hit_test_all(d, drag.current.pos) # 0
    THEN Done([self EXCEPT !.drag = DragMove(from_screen(drag.start.pos))], d)
    ELSE Done([self EXCEPT !.drag =
                   DragSelect(d.selection, RectFromPoints(drag.start.pos, drag.current.pos))],
              d)

\* a drag from empty space with nothing selected leaves the drag state None
left_drag_began_lazy(self, d, drag) ==
    IF hit_test_all(d, drag.start.pos) # 0
    THEN Done([self EXCEPT !.drag = DragMove(from_screen(drag.start.pos))], d)
    ELSE IF d.selection = {}
         THEN Done(self, d)
         ELSE Done([self EXCEPT !.drag =
                        DragSelect(d.selection,
                                   RectFromPoints(drag.start.pos, drag.current.pos))],
                   d)

left_drag_began(self, d, drag) ==
    IF hit_test_all(d, drag.start.pos) # 0
    THEN Done([self EXCEPT !.drag = DragMove(from_screen(drag.start.pos))], d)
    ELSE Done([self EXCEPT !.drag =
                   DragSelect(d.selection, RectFromPoints(drag.start.pos, drag.current.pos))],
              d)

SymmetricDifference(a, b) == (a \ b) \cup (b \ a)

\* the shift modifier ignored: always the union
update_selection_union(d, prev_sel, rect, shift) ==
    LET in_select_rect == {id \in iter_points(d) : RectContains(rect, to_screen(d.points[id]))}
    IN  [d EXCEPT !.selection = prev_sel \cup in_select_rect]

\* the selection updated from the live selection, not from the snapshot
update_selection_incremental(d, prev_sel, rect, shift) ==
    LET in_select_rect == {id \in iter_points(d) : RectContains(rect, to_screen(d.points[id]))}
        new_sel == IF shift
                   THEN SymmetricDifference(d.selection, in_select_rect)
                   ELSE d.selection \cup in_select_rect
    IN  [d EXCEPT !.selection = new_sel]

update_selection_for_drag(d, prev_sel, rect, shift) ==
    LET in_select_rect == {id \in iter_points(d) : RectContains(rect, to_screen(d.points[id]))}
        new_sel == IF shift
                   THEN SymmetricDifference(prev_sel, in_select_rect)
                   ELSE prev_sel \cup in_select_rect
    IN  [d EXCEPT !.selection = new_sel]

\* the live selection handed over in place of the snapshot
left_drag_changed_select_live(self, d, drag) ==
    LET rect == RectFromPoints(drag.current.pos, drag.start.pos)
    IN  Done([self EXCEPT !.drag.rect = rect],
             update_selection_for_drag(d, d.selection, rect, drag.current.shift))

left_drag_changed_select(self, d, drag) ==
    LET rect == RectFromPoints(drag.current.pos, drag.start.pos)
    IN  Done([self EXCEPT !.drag.rect = rect],
             update_selection_for_drag(d, self.drag.previous, rect, drag.current.shift))

\* the selection moved, last_used_pos left where the drag began
left_drag_changed_move_stale(self, d, drag) ==
    LET drag_pos == from_screen(drag.current.pos)
        drag_delta == VecSub(drag_pos, self.drag.last_used_pos)
    IN  IF drag_delta # <<0, 0>>
        THEN Done(self, nudge_selection(d, drag_delta))
        ELSE Done(self, d)

left_drag_changed_move(self, d, drag) ==
    LET drag_pos == from_screen(drag.current.pos)
        drag_delta == VecSub(drag_pos, self.drag.last_used_pos)
    IN  IF drag_delta # <<0, 0>>
        THEN Done([self EXCEPT !.drag.last_used_pos = drag_pos],
                  nudge_selection(d, drag_delta))
        ELSE Done(self, d)

\* Drag reported only when the pointer has moved the selection
left_drag_changed_quiet(self, d, drag) ==
    LET r == CASE self.drag.kind = "Select" -> left_drag_changed_select(self, d, drag)
               [] self.drag.kind = "Move" -> left_drag_changed_move(self, d, drag)
               [] OTHER -> InvalidState(self, d)
    IN  IF r.panic = "no" /\ is_move(r.self.drag) /\ r.self.drag # self.drag
        THEN [r EXCEPT !.self.this_edit_type = "Drag"]
        ELSE r

left_drag_changed(self, d, drag) ==
    LET r == CASE self.drag.kind = "Select" -> left_drag_changed_select(self, d, drag)
               [] self.drag.kind = "Move" -> left_drag_changed_move(self, d, drag)
               [] OTHER -> InvalidState(self, d)
    IN  IF r.panic = "no" /\ is_move(r.self.drag)
        THEN [r EXCEPT !.self.this_edit_type = "Drag"]
        ELSE r

\* a drag-ended that takes the None state for a breach, as drag-changed does
left_drag_ended_strict(self, d, drag) ==
    IF self.drag.kind = "None"
    THEN InvalidState(self, d)
    ELSE IF is_move(self.drag)
         THEN Done([self EXCEPT !.this_edit_type = "DragUp"], d)
         ELSE Done(self, d)

left_drag_ended(self, d, drag) ==
    IF is_move(self.drag)
    THEN Done([self EXCEPT !.this_edit_type = "DragUp"], d)
    ELSE Done(self, d)

\* cancel that closes a move the way drag-ended does
cancel_reports_drag_up(self, d) ==
    IF self.drag.kind = "Select"
    THEN Done([self EXCEPT !.drag = DragNone], [d EXCEPT !.selection = self.drag.previous])
    ELSE IF self.drag.kind = "Move"
         THEN Done([self EXCEPT !.drag = DragNone, !.this_edit_type = "DragUp"], d)
         ELSE Done([self EXCEPT !.drag = DragNone], d)

\* cancel that resets the drag state and keeps the marquee's selection
cancel_keeps_selection(self, d) == Done([self EXCEPT !.drag = DragNone], d)

cancel(self, d) ==
    IF self.drag.kind = "Select"
    THEN Done([self EXCEPT !.drag = DragNone], [d EXCEPT !.selection = self.drag.previous])
    ELSE Done([self EXCEPT !.drag = DragNone], d)

---------------------------------------------------------------------------
(* impl Select: nudge *)

ArrowKeys == {"ArrowLeft", "ArrowRight", "ArrowUp", "ArrowDown"}

NudgeUnit(key) ==
    CASE key = "ArrowLeft" -> <<-1, 0>>
      [] key = "ArrowRight" -> <<1, 0>>
      [] key = "ArrowUp" -> <<0, 1>>
      [] key = "ArrowDown" -> <<0, -1>>

NudgeType(key) ==
    CASE key = "ArrowLeft" -> "NudgeLeft"
      [] key = "ArrowRight" -> "NudgeRight"
      [] key = "ArrowUp" -> "NudgeUp"
      [] key = "ArrowDown" -> "NudgeDown"

\* both scaling modifiers applied, one after the other
NudgeVector_both(event) ==
    VecScale(VecScale(NudgeUnit(event.key), IF event.meta THEN 100 ELSE 1),
             IF event.shift THEN 10 ELSE 1)

NudgeVector(event) ==
    IF event.meta THEN VecScale(NudgeUnit(event.key), 100)
    ELSE IF event.shift THEN VecScale(NudgeUnit(event.key), 10)
    ELSE NudgeUnit(event.key)

\* the comparison taken as hypot(v) >= 1
HypotAtLeastOne(v) == v[1] * v[1] + v[2] * v[2] >= 1

\* hypot(v) > 1 for a vector of integers
HypotAboveOne(v) == v[1] * v[1] + v[2] * v[2] > 1

nudge(self, d, event) ==
    LET v == NudgeVector(event)
    IN  Done([self EXCEPT !.this_edit_type =
                  IF HypotAboveOne(v) THEN "Normal" ELSE NudgeType(event.key)],
             nudge_selection(d, v))

---------------------------------------------------------------------------
(* impl Tool for Select *)

\* the value returned as a copy, the slot left full
Take_copies(r) == [self |-> r.self,
                   data |-> r.data,
                   panic |-> r.panic,
                   ret |-> IF r.panic # "no" THEN "None" ELSE r.self.this_edit_type]

\* Option::take on this_edit_type: the value is returned and the slot emptied
Take(r) == [self |-> [r.self EXCEPT !.this_edit_type = "None"],
            data |-> r.data,
            panic |-> r.panic,
            ret |-> IF r.panic # "no" THEN "None" ELSE r.self.this_edit_type]

\* an early `return None`: the slot is left as it is
ReturnNone(self, d) == [self |-> self, data |-> d, panic |-> "no", ret |-> "None"]

\* assert!(self.this_edit_type.is_none())
AssertFailed(self, d) == [self |-> self, data |-> d, panic |-> "assert", ret |-> "None"]

key_down(self, d, event) ==
    IF self.this_edit_type # "None"
    THEN AssertFailed(self, d)
    ELSE CASE event.key \in ArrowKeys -> Take(nudge(self, d, event))
           [] event.key = "Backspace" ->
                Take(Done([self EXCEPT !.this_edit_type = "Normal"], delete_selection(d)))
           [] event.key = "Tab" /\ ~event.shift /\ ~event.meta ->
                Take(Done(self, select_next(d)))
           [] event.key = "Tab" /\ event.shift /\ ~event.meta ->
                Take(Done(self, select_prev(d)))
           [] OTHER -> ReturnNone(self, d)

---------------------------------------------------------------------------
(* The Mouse dispatcher: it turns button and pointer events into the      *)
(* delegate's callbacks, down, [drag-began, drag-changed*, drag-ended],   *)
(* up, and cancel in place of the rest of a gesture                        *)

MouseUpState == [state |-> "Up", start |-> <<0, 0>>]

Called(r, m, cb) ==
    [self |-> r.self, data |-> r.data, panic |-> r.panic, mouse |-> m, cb |-> cb]

DragOf(m, event) == [start |-> [pos |-> m.start], current |-> event]

Mouse_mouse_down(m, event, self, d) ==
    IF m.state = "Up"
    THEN Called(left_down(self, d, event), [state |-> "Down", start |-> event.pos], "left_down")
    ELSE Called(Done(self, d), m, "none")

Mouse_mouse_moved(m, event, self, d) ==
    CASE m.state = "Up" -> Called(mouse_moved(self, d, event), m, "mouse_moved")
      [] m.state = "Down" ->
            IF event.pos # m.start
            THEN Called(left_drag_began(self, d, DragOf(m, event)),
                        [m EXCEPT !.state = "Drag"], "left_drag_began")
            ELSE Called(Done(self, d), m, "none")
      [] m.state = "Drag" ->
            Called(left_drag_changed(self, d, DragOf(m, event)), m, "left_drag_changed")

Mouse_mouse_up(m, event, self, d) ==
    CASE m.state = "Up" -> Called(Done(self, d), m, "none")
      [] m.state = "Down" -> Called(left_up(self, d, event), MouseUpState, "left_up")
      [] m.state = "Drag" ->
            LET ended == left_drag_ended(self, d, DragOf(m, event))
            IN  IF ended.panic # "no"
                THEN Called(ended, m, "left_drag_ended")
                ELSE Called(left_up(ended.self, ended.data, event), MouseUpState,
                            "left_drag_ended")

Mouse_cancel(m, self, d) == Called(cancel(self, d), MouseUpState, "cancel")

Mouse_mouse_event(m, tagged, self, d) ==
    CASE tagged.tag = "Down" -> Mouse_mouse_down(m, tagged.event, self, d)
      [] tagged.tag = "Moved" -> Mouse_mouse_moved(m, tagged.event, self, d)
      [] tagged.tag = "Up" -> Mouse_mouse_up(m, tagged.event, self, d)

\* Select::mouse_event
mouse_event(self, d, m, tagged) ==
    IF self.this_edit_type # "None"
    THEN AssertFailed(self, d) @@ [mouse |-> m, cb |-> "none"]
    ELSE LET r == Mouse_mouse_event(m, tagged, self, d)
         IN  Take(r) @@ [mouse |-> r.mouse, cb |-> r.cb]

---------------------------------------------------------------------------
(* The events *)

Keys == ArrowKeys \cup {"Backspace", "Tab", "Escape"}

KeyEvents == [key : Keys, shift : BOOLEAN, meta : BOOLEAN]

MouseEvents == [pos : ScreenPoints, shift : BOOLEAN, alt : BOOLEAN, count : {1, 2}]

\* pointer motion: no click count of its own, alt of no effect
MoveEvents == {e \in MouseEvents : ~e.alt /\ e.count = 1}

\* a callback as lastEv records it: its name, its modifiers, the drag state
\* it found and, of a cancel, whether it changed the selection
Ev(name, event, self, d, e) ==
    [name |-> name, shift |-> event.shift, alt |-> event.alt, count |-> event.count,
     from |-> self.drag.kind, dirty |-> name = "cancel" /\ d.selection # e.selection]

NoMods == [shift |-> FALSE, alt |-> FALSE, count |-> 0]

\* some point that both documents hold has changed its place
Moved(d, e) == \E id \in DOMAIN d.points \cap DOMAIN e.points : d.points[id] # e.points[id]

\* snap follows the marquee: set when left_drag_began enters Select, dropped
\* when the drag state is no longer Select
SnapAfter(cb, self, d) ==
    IF self.drag.kind # "Select" THEN {}
    ELSE IF cb = "left_drag_began" THEN d.selection
    ELSE snap

Init ==
    /\ tool = [drag |-> DragNone, last_pos |-> <<0, 0>>, this_edit_type |-> "None"]
    /\ data = [selection |-> {}, points |-> InitPoints, seg_kind |-> "Line"]
    /\ mouse = MouseUpState
    /\ panicked = "no"
    /\ lastEv = [name |-> "init", shift |-> FALSE, alt |-> FALSE, count |-> 0,
                 from |-> "None", dirty |-> FALSE]
    /\ snap = {}

KeyDown ==
    \E event \in KeyEvents :
        LET r == key_down(tool, data, event)
        IN  /\ panicked = "no"
            /\ ~Moved(data, r.data)
            /\ tool' = r.self
            /\ data' = r.data
            /\ panicked' = r.panic
            /\ UNCHANGED <<mouse, lastEv, snap>>

Deliver(tagged) ==
    LET r == mouse_event(tool, data, mouse, tagged)
    IN  /\ panicked = "no"
        /\ ~Moved(data, r.data)
        /\ tool' = r.self
        /\ data' = r.data
        /\ mouse' = r.mouse
        /\ panicked' = r.panic
        /\ lastEv' = CASE r.cb = "left_down" -> Ev(r.cb, tagged.event, tool, data, r.data)
                       [] r.cb = "left_drag_changed" ->
                            Ev(r.cb, [NoMods EXCEPT !.shift = tagged.event.shift],
                               tool, data, r.data)
                       [] r.cb \in {"none", "mouse_moved"} -> lastEv
                       [] OTHER -> Ev(r.cb, NoMods, tool, data, r.data)
        /\ snap' = SnapAfter(r.cb, r.self, data)

\* the left button goes down: only while it is up, and where the pointer
\* was last seen
MouseDown ==
    \E event \in MouseEvents :
        /\ mouse.state = "Up"
        /\ event.pos = tool.last_pos
        /\ Deliver([tag |-> "Down", event |-> event])

MouseMoved ==
    \E event \in MoveEvents :
        /\ mouse.state = "Up" => ~event.shift
        /\ Deliver([tag |-> "Moved", event |-> event])

MouseUp ==
    /\ mouse.state # "Up"
    /\ Deliver([tag |-> "Up",
                event |-> [pos |-> mouse.start, shift |-> FALSE, alt |-> FALSE, count |-> 1]])

\* Mouse::cancel, called by the editor outside mouse_event
Cancel ==
    LET r == Mouse_cancel(mouse, tool, data)
    IN  /\ panicked = "no"
        /\ tool' = r.self
        /\ data' = r.data
        /\ mouse' = r.mouse
        /\ panicked' = r.panic
        /\ lastEv' = Ev("cancel", NoMods, tool, data, r.data)
        /\ snap' = SnapAfter("cancel", r.self, data)

Next == KeyDown \/ MouseDown \/ MouseMoved \/ MouseUp \/ Cancel

Spec == Init /\ [][Next]_vars

---------------------------------------------------------------------------
(* The delegate on its own: the callbacks of MouseDelegate delivered in    *)
(* any order, as a caller other than the Mouse dispatcher may deliver      *)
(* them, each inside the assert and the take of mouse_event                *)

\* a drag starts on the first point or on empty space
DragStarts == {to_screen(InitPoints[1])} \cup EmptyRow

Drags == [start : [pos : DragStarts], current : [pos : ScreenPoints, shift : BOOLEAN]]

Callback(name, mods, r) ==
    LET t == Take(r)
    IN  /\ panicked = "no"
        /\ tool.this_edit_type = "None"
        /\ ~Moved(data, t.data)
        /\ tool' = t.self
        /\ data' = t.data
        /\ panicked' = t.panic
        /\ lastEv' = Ev(name, mods, tool, data, t.data)
        /\ snap' = SnapAfter(name, t.self, data)
        /\ UNCHANGED mouse

DelegateLeftDown ==
    \E event \in MouseEvents : Callback("left_down", event, left_down(tool, data, event))

DelegateLeftUp ==
    \E event \in MoveEvents : Callback("left_up", NoMods, left_up(tool, data, event))

DelegateDragBegan ==
    \E drag \in {g \in Drags : ~g.current.shift} :
        Callback("left_drag_began", NoMods, left_drag_began(tool, data, drag))

DelegateDragChanged ==
    \E drag \in Drags :
        Callback("left_drag_changed", [NoMods EXCEPT !.shift = drag.current.shift],
                 left_drag_changed(tool, data, drag))

DelegateDragEnded ==
    \E drag \in {g \in Drags : ~g.current.shift} :
        Callback("left_drag_ended", NoMods, left_drag_ended(tool, data, drag))

DelegateCancel == Callback("cancel", NoMods, cancel(tool, data))

NextDelegate ==
    \/ DelegateLeftDown
    \/ DelegateLeftUp
    \/ DelegateDragBegan
    \/ DelegateDragChanged
    \/ DelegateDragEnded
    \/ DelegateCancel

SpecDelegate == Init /\ [][NextDelegate]_vars

---------------------------------------------------------------------------
(* The arrow keys on their own: key_down applied to every arrow key with   *)
(* every combination of modifiers, over every selection of the opened      *)
(* glyph, up to MaxNudges presses in a row.  lastEv records the key event, *)
(* the edit type returned and the points as they were before the press.    *)

MaxNudges == 2

ArrowEvents == {e \in KeyEvents : e.key \in ArrowKeys}

InitNudge ==
    /\ tool = [drag |-> DragNone, last_pos |-> <<0, 0>>, this_edit_type |-> "None"]
    /\ data \in [selection : SUBSET EntityIds, points : {InitPoints}, seg_kind : {"Line"}]
    /\ mouse = MouseUpState
    /\ panicked = "no"
    /\ lastEv = [name |-> "init", n |-> 0]
    /\ snap = {}

NudgeKey ==
    \E event \in ArrowEvents :
        LET r == key_down(tool, data, event)
        IN  /\ panicked = "no"
            /\ lastEv.n < MaxNudges
            /\ tool' = r.self
            /\ data' = r.data
            /\ panicked' = r.panic
            /\ lastEv' = [name |-> "key_down", n |-> lastEv.n + 1, key |-> event.key,
                          shift |-> event.shift, meta |-> event.meta, ret |-> r.ret,
                          before |-> data.points]
            /\ UNCHANGED <<mouse, snap>>

NextNudge == NudgeKey

SpecNudge == InitNudge /\ [][NextNudge]_vars

---------------------------------------------------------------------------
(* Gestures that move the geometry: presses, drags, releases and cancels   *)
(* through the dispatcher, the points following the pointer, up to         *)
(* MaxMoves drag-changed events that move a point.  lastEv records, with   *)
(* the callback, the edit type mouse_event returned, the pointer position, *)
(* the sum of the deltas handed to nudge_selection since drag-began, and   *)
(* of the press of the gesture in progress: whether it upgraded a line     *)
(* segment, the point it hit (0 for none), its shift and click count, and  *)
(* the selection it found.                                                 *)

MaxMoves == 2

\* the delta left_drag_changed hands to nudge_selection, <<0, 0>> when it
\* hands over none
drag_delta(self, d, drag) ==
    IF self.drag.kind = "Move"
    THEN VecSub(from_screen(drag.current.pos), self.drag.last_used_pos)
    ELSE <<0, 0>>

NoGrab == [id |-> 0, shift |-> FALSE, count |-> 0, prior |-> {}]

InitMove ==
    /\ tool = [drag |-> DragNone, last_pos |-> <<0, 0>>, this_edit_type |-> "None"]
    /\ data = [selection |-> {}, points |-> InitPoints, seg_kind |-> "Line"]
    /\ mouse = MouseUpState
    /\ panicked = "no"
    /\ lastEv = [name |-> "init", shift |-> FALSE, alt |-> FALSE, count |-> 0,
                 from |-> "None", dirty |-> FALSE, ret |-> "None",
                 pos |-> <<0, 0>>, sum |-> <<0, 0>>, n |-> 0, upgraded |-> FALSE,
                 grab |-> NoGrab]
    /\ snap = {}

DeliverMove(tagged) ==
    LET r == mouse_event(tool, data, mouse, tagged)
        delta == drag_delta(tool, data, DragOf(mouse, tagged.event))
    IN  /\ panicked = "no"
        /\ r.cb # "none"
        /\ Moved(data, r.data) => lastEv.n < MaxMoves
        /\ tool' = r.self
        /\ data' = r.data
        /\ mouse' = r.mouse
        /\ panicked' = r.panic
        /\ lastEv' = [name |-> r.cb,
                      shift |-> tagged.event.shift,
                      alt |-> tagged.event.alt,
                      count |-> tagged.event.count,
                      from |-> tool.drag.kind,
                      dirty |-> data.selection # r.data.selection,
                      ret |-> r.ret,
                      pos |-> tagged.event.pos,
                      sum |-> CASE r.cb = "left_drag_began" -> <<0, 0>>
                                [] r.cb = "left_drag_changed" -> VecAdd(lastEv.sum, delta)
                                [] OTHER -> lastEv.sum,
                      n |-> IF Moved(data, r.data) THEN lastEv.n + 1 ELSE lastEv.n,
                      upgraded |-> CASE r.cb = "left_down" -> data.seg_kind # r.data.seg_kind
                                     [] r.cb \in {"left_drag_began", "left_drag_changed"} ->
                                          lastEv.upgraded
                                     [] OTHER -> FALSE,
                      grab |-> CASE r.cb = "left_down" ->
                                      [id |-> hit_test_all(data, tagged.event.pos),
                                       shift |-> tagged.event.shift,
                                       count |-> tagged.event.count,
                                       prior |-> data.selection]
                                 [] r.cb \in {"left_drag_began", "left_drag_changed"} ->
                                      lastEv.grab
                                 [] OTHER -> NoGrab]
        /\ snap' = SnapAfter(r.cb, r.self, data)

\* the button goes down as long as no point has been moved: the gestures
\* are clicks, marquees, and one drag that moves the geometry
MovePress ==
    \E event \in MouseEvents :
        /\ mouse.state = "Up"
        /\ lastEv.n = 0
        /\ DeliverMove([tag |-> "Down", event |-> event])

MoveDrag ==
    \E event \in MoveEvents :
        /\ mouse.state # "Up"
        /\ DeliverMove([tag |-> "Moved", event |-> event])

MoveRelease ==
    /\ mouse.state # "Up"
    /\ DeliverMove([tag |-> "Up",
                    event |-> [pos |-> lastEv.pos, shift |-> FALSE, alt |-> FALSE,
                               count |-> 1]])

MoveCancel ==
    LET r == Mouse_cancel(mouse, tool, data)
    IN  /\ panicked = "no"
        /\ mouse.state # "Up"
        /\ tool' = r.self
        /\ data' = r.data
        /\ mouse' = r.mouse
        /\ panicked' = r.panic
        /\ lastEv' = [lastEv EXCEPT !.name = "cancel",
                                    !.shift = FALSE,
                                    !.from = tool.drag.kind,
                                    !.dirty = data.selection # r.data.selection,
                                    !.ret = r.self.this_edit_type,
                                    !.upgraded = FALSE,
                                    !.grab = NoGrab]
        /\ snap' = SnapAfter("cancel", r.self, data)

NextMove == MovePress \/ MoveDrag \/ MoveRelease \/ MoveCancel

SpecMove == InitMove /\ [][NextMove]_vars

TypeOK ==
    /\ tool.drag.kind \in {"None", "Select", "Move"}
    /\ data.selection \subseteq EntityIds
    /\ mouse.state \in {"Up", "Down", "Drag"}
    /\ panicked \in {"no", "assert", "invalid state"}
    /\ snap \subseteq EntityIds

---------------------------------------------------------------------------
(* Running events from a state: the tool, the session and the dispatcher  *)
(* as one record, and the events sent through Select::mouse_event          *)

World == [self |-> tool, data |-> data, mouse |-> mouse]

Send(w, tagged) ==
    LET r == mouse_event(w.self, w.data, w.mouse, tagged)
    IN  [self |-> r.self, data |-> r.data, mouse |-> r.mouse, panic |-> r.panic,
         ret |-> r.ret]

Press(w, event) == Send(w, [tag |-> "Down", event |-> event])

MoveTo(w, pos, shift) ==
    Send(w, [tag |-> "Moved",
             event |-> [pos |-> pos, shift |-> shift, alt |-> FALSE, count |-> 1]])

Release(w) ==
    Send(w, [tag |-> "Up",
             event |-> [pos |-> w.mouse.start, shift |-> FALSE, alt |-> FALSE, count |-> 1]])

\* the ids of the points whose screen projection lies in the rectangle
InRect(d, rect) == {id \in DOMAIN d.points : RectContains(rect, to_screen(d.points[id]))}

InMarquee == mouse.state = "Drag" /\ tool.drag.kind = "Select"

---------------------------------------------------------------------------
(* C1: in a marquee drag, whatever drag-changed events (and key events)    *)
(* have been processed since left_drag_began took its snapshot P, the      *)
(* snapshot the tool holds is still P, and a cancel delivered now leaves   *)
(* the live selection equal to P and the drag state None.                  *)

C1_CancelRestoresSnapshot ==
    tool.drag.kind = "Select" =>
        LET r == Mouse_cancel(mouse, tool, data)
        IN  /\ tool.drag.previous = snap
            /\ r.data.selection = snap
            /\ r.self.drag = DragNone
            /\ r.panic = "no"

\* a cancel has ended a marquee and thrown away what the marquee had changed
C1_Witness ==
    /\ lastEv.name = "cancel"
    /\ lastEv.from = "Select"
    /\ lastEv.dirty
    /\ tool.drag = DragNone
    /\ data.selection # {}

---------------------------------------------------------------------------
(* C2: a left_drag_changed processed in the Select state leaves the live   *)
(* selection equal to P union H when shift is not held on that event and   *)
(* to the symmetric difference of P and H when it is, P being the snapshot *)
(* taken at drag-began and H the ids of the points inside the marquee      *)
(* rectangle the event leaves.                                             *)

C2_RectangleSelection ==
    InMarquee =>
        \A event \in MoveEvents :
            LET r == MoveTo(World, event.pos, event.shift)
                H == InRect(data, r.self.drag.rect)
            IN  /\ r.panic = "no"
                /\ r.self.drag.kind = "Select"
                /\ ~event.shift => r.data.selection = snap \cup H
                /\ event.shift =>
                       \A id \in EntityIds :
                           id \in r.data.selection <=> ~(id \in snap <=> id \in H)

\* a shift-held drag-changed has dropped an id that was both in the snapshot
\* and in the rectangle and added one that was in the rectangle alone
C2_Witness ==
    /\ InMarquee
    /\ lastEv.name = "left_drag_changed"
    /\ lastEv.shift
    /\ snap \cap InRect(data, tool.drag.rect) # {}
    /\ InRect(data, tool.drag.rect) \ snap # {}
    /\ data.selection = SymmetricDifference(snap, InRect(data, tool.drag.rect))

---------------------------------------------------------------------------
(* C3: a shift-held rectangle selection over R, followed by a second       *)
(* shift-held rectangle selection over the same R that starts from what    *)
(* the first one left, ends with the selection the first one started from. *)
(* The gesture is run from every state in which a press on empty space is  *)
(* about to become a marquee; the press of the second gesture is one that  *)
(* leaves the selection as it is.                                          *)

ShiftPress(pos) == [pos |-> pos, shift |-> TRUE, alt |-> FALSE, count |-> 1]

C3_ShiftRectangleTwice ==
    (mouse.state = "Down" /\ hit_test_all(data, mouse.start) = 0) =>
        \A c \in ScreenPoints \ {mouse.start} :
            LET P == data.selection
                a1 == MoveTo(World, c, TRUE)
                a2 == MoveTo(a1, c, TRUE)
                a3 == Release(a2)
                b0 == Press(a3, ShiftPress(mouse.start))
                b1 == MoveTo(b0, c, TRUE)
                b2 == MoveTo(b1, c, TRUE)
            IN  /\ a1.self.drag.kind = "Select"
                /\ a1.self.drag.previous = P
                /\ b0.data.selection = a3.data.selection =>
                       /\ b1.self.drag.previous = a2.data.selection
                       /\ b2.self.drag.rect = a2.self.drag.rect
                       /\ b2.data.selection = P

\* a second shift-held pass has taken out again the ids of the rectangle
C3_Witness ==
    /\ InMarquee
    /\ lastEv.name = "left_drag_changed"
    /\ lastEv.shift
    /\ InRect(data, tool.drag.rect) = {1, 2}
    /\ snap = {1, 2, 3}
    /\ data.selection = {3}

---------------------------------------------------------------------------
(* C4: in a marquee drag with snapshot P, whatever events the drag has     *)
(* seen so far, the selection a drag-changed leaves is the one the same    *)
(* rectangle and the same shift state leave in a drag that has just begun  *)
(* from P over the same document, with the rectangle spanned from either   *)
(* of its corners.                                                         *)

FreshDrag(start, current, shift) ==
    LET d0 == [start |-> [pos |-> start], current |-> [pos |-> start, shift |-> FALSE]]
        d1 == [start |-> [pos |-> start], current |-> [pos |-> current, shift |-> shift]]
        began == left_drag_began([tool EXCEPT !.drag = DragNone],
                                 [data EXCEPT !.selection = snap], d0)
    IN  left_drag_changed(began.self, began.data, d1)

C4_HistoryIndependent ==
    InMarquee =>
        \A event \in MoveEvents :
            LET mine == left_drag_changed(tool, data, DragOf(mouse, event))
                same == FreshDrag(mouse.start, event.pos, event.shift)
                swapped == FreshDrag(event.pos, mouse.start, event.shift)
            IN  /\ mine.data.selection = same.data.selection
                /\ mine.self.drag.rect = same.self.drag.rect
                /\ hit_test_all(data, event.pos) = 0 =>
                       /\ swapped.self.drag.rect = mine.self.drag.rect
                       /\ swapped.data.selection = mine.data.selection

\* a marquee that has shrunk to hold no point, after a key has changed the
\* selection under it
C4_Witness ==
    /\ InMarquee
    /\ lastEv.name = "left_drag_changed"
    /\ InRect(data, tool.drag.rect) = {}
    /\ snap = {1}
    /\ data.selection = {3}

---------------------------------------------------------------------------
(* C5: the pending edit-type slot is None in every state between two       *)
(* top-level calls, no entry assertion has failed, and from every such     *)
(* state every key_down, every mouse_event and cancel leaves the slot      *)
(* None again without failing its assertion; a key that returns early      *)
(* returns no edit type.                                                   *)

TaggedEvents ==
    [tag : {"Down"}, event : MouseEvents] \cup [tag : {"Moved", "Up"}, event : MoveEvents]

C5_SlotEmptyBetweenCalls ==
    /\ tool.this_edit_type = "None"
    /\ panicked # "assert"
    /\ \A event \in KeyEvents :
           LET r == key_down(tool, data, event)
           IN  /\ r.self.this_edit_type = "None"
               /\ r.panic # "assert"
               /\ event.key = "Escape" => r.ret = "None"
    /\ \A tagged \in TaggedEvents :
           LET r == mouse_event(tool, data, mouse, tagged)
           IN  /\ r.self.this_edit_type = "None"
               /\ r.panic # "assert"
    /\ Mouse_cancel(mouse, tool, data).self.this_edit_type = "None"

\* an alt-click has upgraded the line segment and returned early: the
\* selection is as empty as before, and the slot is empty again
C5_Witness ==
    /\ lastEv.name = "left_down"
    /\ lastEv.alt
    /\ lastEv.count = 1
    /\ mouse.state = "Down"
    /\ hit_test_all(data, mouse.start) = 0
    /\ hit_test_segments(data, mouse.start)
    /\ DOMAIN data.points = EntityIds
    /\ data.seg_kind = "Curve"
    /\ data.selection = {}
    /\ tool.this_edit_type = "None"

---------------------------------------------------------------------------
(* C6: under the dispatcher's calling order, with key events and cancel    *)
(* interleaved, no call has reached the "invalid state" branch, the drag   *)
(* state is not None while the dispatcher is in a drag, so that no         *)
(* drag-changed it delivers next reaches that branch, and a cancel leaves  *)
(* the dispatcher outside the gesture.                                     *)

C6_NoDragChangedInNone ==
    /\ panicked # "invalid state"
    /\ mouse.state = "Drag" => tool.drag.kind \in {"Select", "Move"}
    /\ \A event \in MoveEvents : MoveTo(World, event.pos, event.shift).panic = "no"
    /\ Mouse_cancel(mouse, tool, data).mouse.state = "Up"

\* a marquee drag goes on after a key has changed the selection under it
C6_Witness ==
    /\ InMarquee
    /\ lastEv.name = "left_drag_changed"
    /\ lastEv.from = "Select"
    /\ data.selection # snap \cup InRect(data, tool.drag.rect)
    /\ data.selection # SymmetricDifference(snap, InRect(data, tool.drag.rect))
    /\ panicked = "no"

---------------------------------------------------------------------------
(* C8: a single click on point p, the selection being S: without shift it  *)
(* leaves {p} when p is not in S and S when p is in S; with shift it flips *)
(* p and keeps every other id. From the empty selection, click 1,          *)
(* shift-click 2, shift-click 1 leave {1}, {1, 2}, {2}.                    *)

Click(pos, shift) == [pos |-> pos, shift |-> shift, alt |-> FALSE, count |-> 1]

PointClicks == {e \in MouseEvents : e.count = 1 /\ hit_test_all(data, e.pos) # 0}

C8_Scenario ==
    LET p1 == to_screen(data.points[1])
        p2 == to_screen(data.points[2])
        s1 == Press(World, Click(p1, FALSE))
        s2 == Press(Release(s1), Click(p2, TRUE))
        s3 == Press(Release(s2), Click(p1, TRUE))
    IN  /\ s1.data.selection = {1}
        /\ s2.data.selection = {1, 2}
        /\ s3.data.selection = {2}

C8_ClickOnPoint ==
    mouse.state = "Up" =>
        /\ \A event \in PointClicks :
               LET p == hit_test_all(data, event.pos)
                   S == data.selection
                   r == Press(World, event)
               IN  /\ r.panic = "no"
                   /\ (~event.shift /\ p \notin S) => r.data.selection = {p}
                   /\ (~event.shift /\ p \in S) => r.data.selection = S
                   /\ event.shift =>
                          /\ p \in r.data.selection <=> p \notin S
                          /\ \A q \in EntityIds \ {p} : q \in r.data.selection <=> q \in S
        /\ (data.selection = {} /\ {1, 2} \subseteq DOMAIN data.points) => C8_Scenario

\* a shift-click on the selected point 1 has left point 2 alone selected
C8_Witness ==
    /\ lastEv.name = "left_down"
    /\ lastEv.shift
    /\ lastEv.count = 1
    /\ mouse.state = "Down"
    /\ hit_test_all(data, mouse.start) = 1
    /\ data.selection = {2}

---------------------------------------------------------------------------
(* C9: a single click that hits no point but the segment with endpoint     *)
(* ids G, alt-click on a line apart: with shift it leaves S \ G when all   *)
(* of G is in S and S \cup G otherwise, so that two shift-clicks on a      *)
(* fully selected segment give back S; without shift it leaves G when not  *)
(* all of G is in S and S otherwise.                                       *)

SegmentClicks ==
    {e \in MouseEvents : /\ e.count = 1
                         /\ hit_test_all(data, e.pos) = 0
                         /\ hit_test_segments(data, e.pos)
                         /\ ~(e.alt /\ data.seg_kind = "Line")}

---------------------------------------------------------------------------
(* C10: a single click that hits neither a point nor a segment leaves the  *)
(* selection empty without shift and as it was with shift, and the call    *)
(* returns no edit type.                                                   *)

EmptyClicks ==
    {e \in MouseEvents : /\ e.count = 1
                         /\ hit_test_all(data, e.pos) = 0
                         /\ ~hit_test_segments(data, e.pos)}

C10_ClickOnNothing ==
    mouse.state = "Up" =>
        \A event \in EmptyClicks :
            LET r == Press(World, event)
            IN  /\ r.panic = "no"
                /\ r.ret = "None"
                /\ ~event.shift => r.data.selection = {}
                /\ event.shift => r.data.selection = data.selection

\* a shift-click on empty space has left a selection standing
C10_Witness ==
    /\ lastEv.name = "left_down"
    /\ lastEv.shift
    /\ lastEv.count = 1
    /\ mouse.state = "Down"
    /\ hit_test_all(data, mouse.start) = 0
    /\ ~hit_test_segments(data, mouse.start)
    /\ data.selection = {1, 2, 3}

---------------------------------------------------------------------------
(* C7: a drag-changed or a drag-ended callback that finds the drag state   *)
(* None aborts. The callbacks are delivered in any order.                  *)

C7_BothAbortInNone ==
    (lastEv.name \in {"left_drag_changed", "left_drag_ended"} /\ lastEv.from = "None") =>
        panicked = "invalid state"

(* C7 as the code has it: a drag-changed that finds the drag state None    *)
(* aborts with "invalid state"; a drag-ended that finds it None returns    *)
(* normally, changes neither the tool nor the session and emits no edit    *)
(* type; nothing else aborts.                                              *)

C7_OnlyDragChangedAborts ==
    /\ (lastEv.name = "left_drag_changed" /\ lastEv.from = "None") =>
           panicked = "invalid state"
    /\ (lastEv.name = "left_drag_ended" /\ lastEv.from = "None") =>
           panicked = "no" /\ tool.drag = DragNone
    /\ panicked = "invalid state" =>
           lastEv.name = "left_drag_changed" /\ lastEv.from = "None"
    /\ (panicked = "no" /\ tool.drag.kind = "None") =>
           \A drag \in Drags :
               /\ left_drag_changed(tool, data, drag).panic = "invalid state"
               /\ Take(left_drag_ended(tool, data, drag)) =
                      [self |-> tool, data |-> data, panic |-> "no", ret |-> "None"]

\* a drag-ended has found the drag state None and has returned
C7_Witness ==
    /\ lastEv.name = "left_drag_ended"
    /\ lastEv.from = "None"
    /\ panicked = "no"
    /\ tool.drag = DragNone
    /\ data.selection # {}

---------------------------------------------------------------------------
(* C12: an arrow key pressed with neither shift nor meta returns the edit  *)
(* type of its direction, the same on every press; pressed with shift,     *)
(* meta or both it returns Normal.                                         *)

C12_NudgeEditType ==
    lastEv.name = "key_down" =>
        /\ panicked = "no"
        /\ (~lastEv.shift /\ ~lastEv.meta) =>
               /\ lastEv.key = "ArrowLeft" => lastEv.ret = "NudgeLeft"
               /\ lastEv.key = "ArrowRight" => lastEv.ret = "NudgeRight"
               /\ lastEv.key = "ArrowUp" => lastEv.ret = "NudgeUp"
               /\ lastEv.key = "ArrowDown" => lastEv.ret = "NudgeDown"
        /\ (lastEv.shift \/ lastEv.meta) => lastEv.ret = "Normal"

\* a second unmodified ArrowLeft in a row has returned NudgeLeft again
C12_Witness ==
    /\ lastEv.name = "key_down"
    /\ lastEv.n = 2
    /\ lastEv.key = "ArrowLeft"
    /\ ~lastEv.shift
    /\ ~lastEv.meta
    /\ lastEv.ret = "NudgeLeft"
    /\ data.selection = {2}
    /\ data.points[2] = VecAdd(InitPoints[2], <<-2, 0>>)

---------------------------------------------------------------------------
(* C13: an arrow key moves every selected point by the unit vector of the  *)
(* key, left (-1,0), right (1,0), up (0,1), down (0,-1), times 100 with    *)
(* meta, else times 10 with shift, else times 1, and moves no other point. *)

C13_Factor == IF lastEv.meta THEN 100 ELSE IF lastEv.shift THEN 10 ELSE 1

C13_Unit ==
    CASE lastEv.key = "ArrowLeft" -> <<-1, 0>>
      [] lastEv.key = "ArrowRight" -> <<1, 0>>
      [] lastEv.key = "ArrowUp" -> <<0, 1>>
      [] lastEv.key = "ArrowDown" -> <<0, -1>>

C13_NudgeVector ==
    lastEv.name = "key_down" =>
        /\ DOMAIN data.points = DOMAIN lastEv.before
        /\ \A id \in DOMAIN data.points :
               data.points[id] =
                   IF id \in data.selection
                   THEN <<lastEv.before[id][1] + C13_Factor * C13_Unit[1],
                          lastEv.before[id][2] + C13_Factor * C13_Unit[2]>>
                   ELSE lastEv.before[id]

\* ArrowRight with shift has moved the selected point 1 by (10, 0)
C13_Witness ==
    /\ lastEv.name = "key_down"
    /\ lastEv.n = 1
    /\ lastEv.key = "ArrowRight"
    /\ lastEv.shift
    /\ ~lastEv.meta
    /\ data.selection = {1}
    /\ data.points[1] = <<InitPoints[1][1] + 10, InitPoints[1][2]>>
    /\ data.points[2] = InitPoints[2]

---------------------------------------------------------------------------
(* C11: a mouse_event that delivers left_drag_changed in the Move state    *)
(* returns Drag, also when nothing is moved; the one that delivers         *)
(* left_drag_ended of a Move gesture returns DragUp; drag-began, and       *)
(* drag-changed, drag-ended and up of a marquee, return no edit type.      *)
(* DragUp is returned by nothing else, the Move state is found only in a   *)
(* drag, and the release that returns DragUp ends the gesture.             *)

C11_EditTypeOrdering ==
    /\ (lastEv.name = "left_drag_changed" /\ lastEv.from = "Move") => lastEv.ret = "Drag"
    /\ (lastEv.name = "left_drag_ended" /\ lastEv.from = "Move") => lastEv.ret = "DragUp"
    /\ lastEv.name = "left_drag_began" => lastEv.ret = "None"
    /\ lastEv.name = "left_up" => lastEv.ret = "None"
    /\ lastEv.from = "Select" => lastEv.ret = "None"
    /\ lastEv.ret = "DragUp" => lastEv.name = "left_drag_ended" /\ lastEv.from = "Move"
    /\ lastEv.ret = "Drag" => lastEv.name = "left_drag_changed" /\ lastEv.from = "Move"
    /\ tool.drag.kind = "Move" => mouse.state = "Drag"
    /\ (mouse.state = "Drag" /\ tool.drag.kind = "Move") =>
           /\ \A event \in MoveEvents : MoveTo(World, event.pos, event.shift).ret = "Drag"
           /\ Release(World).ret = "DragUp"
           /\ Release(World).mouse.state = "Up"
           /\ Release(World).self.drag = DragNone
    /\ (mouse.state = "Drag" /\ tool.drag.kind = "Select") =>
           /\ \A event \in MoveEvents : MoveTo(World, event.pos, event.shift).ret = "None"
           /\ Release(World).ret = "None"
    /\ mouse.state # "Drag" =>
           \A tagged \in TaggedEvents :
               mouse_event(tool, data, mouse, tagged).ret \notin {"Drag", "DragUp"}

\* a Move gesture has ended with DragUp after two drag-changed events that
\* moved the grabbed point
C11_Witness ==
    /\ lastEv.name = "left_drag_ended"
    /\ lastEv.from = "Move"
    /\ lastEv.ret = "DragUp"
    /\ lastEv.n = 2
    /\ mouse.state = "Up"
    /\ tool.drag = DragNone
    /\ data.points[1] # InitPoints[1]

---------------------------------------------------------------------------
(* C14: an alt-click that hits no point but a line segment upgrades the    *)
(* segment to a curve, returns Normal and leaves the selection as it was;  *)
(* the drag-began and drag-changed that follow the same press enter        *)
(* neither the Select nor the Move state and change neither the selection  *)
(* nor the geometry.                                                       *)

C14_AltClickBeginsNoDrag ==
    /\ (lastEv.name = "left_down" /\ lastEv.upgraded) =>
           /\ lastEv.alt
           /\ lastEv.ret = "Normal"
           /\ ~lastEv.dirty
           /\ data.seg_kind = "Curve"
    /\ (lastEv.name \in {"left_drag_began", "left_drag_changed"} /\ lastEv.upgraded) =>
           /\ tool.drag.kind \notin {"Select", "Move"}
           /\ ~lastEv.dirty
           /\ lastEv.n = 0

---------------------------------------------------------------------------
(* How far the one moving drag has carried the points: every selected      *)
(* point by the sum of the deltas, every other point not at all            *)

Carried(sum) ==
    \A id \in DOMAIN data.points :
        data.points[id] = IF id \in data.selection
                          THEN <<InitPoints[id][1] + sum[1], InitPoints[id][2] + sum[2]>>
                          ELSE InitPoints[id]

---------------------------------------------------------------------------
(* C15: cancel in the Move state leaves the drag state None, the selection *)
(* and the geometry as they are, every delta of the drag still applied,    *)
(* and no edit type in the slot.                                           *)

C15_CancelMoveNoRollback ==
    /\ tool.drag.kind = "Move" =>
           LET r == Mouse_cancel(mouse, tool, data)
           IN  /\ r.panic = "no"
               /\ r.self.drag = DragNone
               /\ r.self.this_edit_type = "None"
               /\ r.data = data
    /\ (lastEv.name = "cancel" /\ lastEv.from = "Move") =>
           /\ tool.drag = DragNone
           /\ mouse.state = "Up"
           /\ ~lastEv.dirty
           /\ lastEv.ret = "None"
           /\ Carried(lastEv.sum)

\* a move of points 1 and 2 has been cancelled after two drag-changed events
C15_Witness ==
    /\ lastEv.name = "cancel"
    /\ lastEv.from = "Move"
    /\ lastEv.n = 2
    /\ lastEv.sum # <<0, 0>>
    /\ data.selection = {1, 2}
    /\ data.points[1] # InitPoints[1]
    /\ tool.drag = DragNone

---------------------------------------------------------------------------
(* C19: in a Move gesture, after every drag-changed, last_used_pos is the  *)
(* design-space position of the pointer, and the deltas handed to          *)
(* nudge_selection since drag-began add up to that position minus the      *)
(* design-space position of the drag start; a drag-changed at              *)
(* last_used_pos changes nothing.                                          *)

C19_MoveDeltasTelescope ==
    /\ (lastEv.name = "left_drag_began" /\ tool.drag.kind = "Move") =>
           /\ tool.drag.last_used_pos = from_screen(mouse.start)
           /\ lastEv.sum = <<0, 0>>
    /\ (lastEv.name = "left_drag_changed" /\ lastEv.from = "Move") =>
           /\ tool.drag.kind = "Move"
           /\ tool.drag.last_used_pos = from_screen(lastEv.pos)
           /\ lastEv.sum[1] = from_screen(lastEv.pos)[1] - from_screen(mouse.start)[1]
           /\ lastEv.sum[2] = from_screen(lastEv.pos)[2] - from_screen(mouse.start)[2]
           /\ Carried(lastEv.sum)
    /\ (mouse.state = "Drag" /\ tool.drag.kind = "Move") =>
           \A event \in MoveEvents :
               from_screen(event.pos) = tool.drag.last_used_pos =>
                   LET r == left_drag_changed(tool, data, DragOf(mouse, event))
                   IN  r.data = data /\ r.self.drag = tool.drag

\* two drag-changed events have carried point 1 from its place to the row
\* below, three cells to the right
C19_Witness ==
    /\ lastEv.name = "left_drag_changed"
    /\ lastEv.from = "Move"
    /\ lastEv.n = 2
    /\ lastEv.sum = <<3, -1>>
    /\ data.selection = {1}
    /\ data.points[1] = <<3, 0>>

---------------------------------------------------------------------------
(* C20: after a single click without shift on point e and the drag-began   *)
(* of the same press, the state is Move and e is selected, with the whole  *)
(* selection the click found when e was in it and alone otherwise, and     *)
(* the drag-changed events carry e with the pointer.                       *)

C20_DraggedIsMoved ==
    (/\ mouse.state = "Drag"
     /\ lastEv.name \in {"left_drag_began", "left_drag_changed"}
     /\ lastEv.grab.id # 0
     /\ lastEv.grab.count = 1
     /\ ~lastEv.grab.shift) =>
        LET e == lastEv.grab.id
        IN  /\ tool.drag.kind = "Move"
            /\ e \in data.selection
            /\ e \in lastEv.grab.prior => data.selection = lastEv.grab.prior
            /\ e \notin lastEv.grab.prior => data.selection = {e}
            /\ data.points[e] = <<InitPoints[e][1] + lastEv.sum[1],
                                  InitPoints[e][2] + lastEv.sum[2]>>
            /\ \A event \in MoveEvents :
                   LET r == MoveTo(World, event.pos, event.shift)
                   IN  /\ r.data.selection = data.selection
                       /\ r.data.points[e] =
                              <<data.points[e][1] + from_screen(event.pos)[1]
                                    - tool.drag.last_used_pos[1],
                                data.points[e][2] + from_screen(event.pos)[2]
                                    - tool.drag.last_used_pos[2]>>

\* point 2, clicked while 2 and 3 were selected, has been dragged one cell
\* to the left and has taken point 3 along
C20_Witness ==
    /\ mouse.state = "Drag"
    /\ tool.drag.kind = "Move"
    /\ lastEv.name = "left_drag_changed"
    /\ lastEv.grab = [id |-> 2, shift |-> FALSE, count |-> 1, prior |-> {2, 3}]
    /\ data.selection = {2, 3}
    /\ data.points[2] = <<0, 1>>
    /\ data.points[3] = <<2, 1>>

---------------------------------------------------------------------------
(* C16: every id of the live selection is the id of a point the document   *)
(* holds, in every state, with key events and gesture callbacks in any     *)
(* interleaving.                                                           *)

C16_NoDanglingIds == data.selection \subseteq iter_points(data)

---------------------------------------------------------------------------
(* C17: left_drag_began enters Move, with last_used_pos the start position *)
(* in design space, exactly when the hit test at the drag's start position *)
(* finds an entity; otherwise it enters Select with the live selection as  *)
(* previous and the rectangle spanned by the start and current positions.  *)
(* It changes neither the selection nor the geometry and emits no edit     *)
(* type.                                                                   *)

C17_DragBeganClassifies ==
    /\ lastEv.name = "left_drag_began" =>
           /\ hit_test_all(data, mouse.start) # 0 =>
                  tool.drag = [kind |-> "Move", last_used_pos |-> from_screen(mouse.start)]
           /\ hit_test_all(data, mouse.start) = 0 =>
                  tool.drag = [kind |-> "Select", previous |-> data.selection,
                               rect |-> RectFromPoints(mouse.start, lastEv.pos)]
           /\ ~lastEv.dirty
           /\ lastEv.n = 0
           /\ data.points = InitPoints
           /\ lastEv.ret = "None"
    /\ \A start \in ScreenPoints, current \in ScreenPoints :
           LET r == left_drag_began(tool, data, [start |-> [pos |-> start],
                                                current |-> [pos |-> current, shift |-> FALSE]])
           IN  /\ r.panic = "no"
               /\ r.data = data
               /\ r.self.this_edit_type = tool.this_edit_type
               /\ r.self.drag.kind = IF hit_test_all(data, start) # 0 THEN "Move" ELSE "Select"

\* a drag begun on point 2 has entered Move at the design-space place of
\* the press, the pointer being already over point 1
C17_Witness ==
    /\ lastEv.name = "left_drag_began"
    /\ mouse.start = <<1, 0>>
    /\ lastEv.pos = <<0, 0>>
    /\ tool.drag = [kind |-> "Move", last_used_pos |-> <<1, 1>>]
    /\ data.selection = {2}

---------------------------------------------------------------------------
(* C18: the drag state becomes non-None only in left_drag_began; it is     *)
(* None after each of left_drag_ended, left_up and cancel, whatever it was *)
(* before; key events and mouse_moved do not change it.  The callbacks are *)
(* delivered in any order.                                                 *)

C18_KeysAndMotionKeepDrag ==
    /\ \A event \in KeyEvents : key_down(tool, data, event).self.drag = tool.drag
    /\ \A event \in MoveEvents : mouse_moved(tool, data, event).self.drag = tool.drag

C18_OnlyDragBeganEnters ==
    (lastEv.from = "None" /\ tool.drag.kind # "None") => lastEv.name = "left_drag_began"

C18_ResetOnEndUpCancel ==
    /\ C18_OnlyDragBeganEnters
    /\ lastEv.name \in {"left_drag_ended", "left_up", "cancel"} => tool.drag = DragNone
    /\ C18_KeysAndMotionKeepDrag

(* C18 as the code has it: the drag state becomes non-None only in         *)
(* left_drag_began; it is None after left_up and after cancel, whatever it *)
(* was before; left_drag_ended leaves it as it found it, and it is the     *)
(* left_up that follows which resets it; left_down, left_drag_changed, key *)
(* events and mouse_moved do not change its kind.                          *)

C18_ResetOnUpCancel ==
    /\ C18_OnlyDragBeganEnters
    /\ lastEv.name \in {"left_up", "cancel"} => tool.drag = DragNone
    /\ lastEv.name \in {"left_drag_ended", "left_down", "left_drag_changed"} =>
           tool.drag.kind = lastEv.from
    /\ \A drag \in Drags :
           LET ended == left_drag_ended(tool, data, drag)
           IN  /\ ended.self.drag = tool.drag
               /\ left_up(ended.self, ended.data, drag.current).self.drag = DragNone
    /\ cancel(tool, data).self.drag = DragNone
    /\ C18_KeysAndMotionKeepDrag

\* a drag-ended has returned and the marquee is still the drag state
C18_Witness ==
    /\ lastEv.name = "left_drag_ended"
    /\ lastEv.from = "Select"
    /\ tool.drag.kind = "Select"
    /\ panicked = "no"

====
